---------------------------- MODULE Spec2Model ----------------------------
(***************************************************************************)
(* A model of shellob (src/src/main.rs): the line tokenizer                *)
(* Shell::tokenize, the dispatcher Shell::handle_command with its four     *)
(* builtins and the search-path lookup, and the read loop of main.         *)
(*                                                                         *)
(* A Rust string is modelled as the sequence of its characters, each a     *)
(* one-character TLA+ string, so that the tokenizer really scans its       *)
(* input.  A print is modelled as the record of its format string and its  *)
(* arguments.                                                              *)
(***************************************************************************)
EXTENDS Naturals, Sequences, FiniteSets, TLC

VARIABLES
    pc,           \* position of the read loop: "prompt", "handle", "done";
                  \* of the tokenizer harness: "tokenize", "tokenized"
    alive,        \* "running", "exited" (process::exit(0)), "panicked"
    fsFiles,      \* the regular files that exist in the search-path directories
    cwd,          \* the process's current working directory
    input,        \* the line handed to handle_command / tokenize
    tokens,       \* handle_command's local `tokens`
    arguments,    \* handle_command's local `arguments`
    output_file,  \* handle_command's local `output_file`: <<>> is None, <<f>> is Some(f)
    resolved,     \* the branch taken: "none", "panic", "builtin", "external", "notfound"
    invoked,      \* whether the builtin's function was called
    launched,     \* whether an external process was launched
    lookups,      \* the names find_in_path was called with during the dispatch
    terminal,     \* what the dispatch printed to standard output
    errors,       \* what the dispatch printed to standard error
    written       \* the file the dispatch created, with what was written to it

vars == <<pc, alive, fsFiles, cwd, input, tokens, arguments, output_file,
          resolved, invoked, launched, lookups, terminal, errors, written>>

---------------------------------------------------------------------------
(* Bounds of the model. *)

\* longest input string of the tokenizer harness
MaxLen == 5
\* most words on a command line typed at the prompt
MaxWords == 4

---------------------------------------------------------------------------
(* Characters. *)

SQ == "'"
DQ == "\""
BS == "\\"
SP == " "
NL == "\n"
TAB == "\t"
DOLLAR == "$"

\* the characters the tokenizer harness builds its inputs from
Alphabet == {"a", SP, SQ, DQ, BS, DOLLAR, NL, TAB}

\* char::is_whitespace, on the characters of the model
IsWhitespace(c) == c \in {SP, NL, TAB}

---------------------------------------------------------------------------
(* Shell::tokenize *)

\* the mutant of Flush: the pending buffer is pushed even when it is empty
FlushAlways(toks, current) == Append(toks, current)

\* `if !current.is_empty() { tokens.push(current) }`, of the space arm and of
\* the end of input
Flush(toks, current) == IF current # <<>> THEN Append(toks, current) ELSE toks

\* the mutant of IsSeparator: a tab separates tokens too
IsSeparatorAnyBlank(c) == c \in {SP, TAB}

\* the arm `' ' =>` of the outer match: exactly the space character
IsSeparator(c) == c = SP

\* the mutant of SqCloses: a double quote closes a single-quoted region too
SqClosesOnAnyQuote(c) == c \in {SQ, DQ}

\* `if c == '\'' { break; }` of the single-quote arm
SqCloses(c) == c = SQ

\* the mutant of DqEscape: every backslash pair collapses
DqEscapeCollapseAll(next) == <<next>>

\* the inner match on the character after a backslash in a double-quoted region
DqEscape(next) ==
    IF next \in {BS, DOLLAR, DQ, NL} THEN <<next>> ELSE <<BS, next>>

\* the single-quote arm's loop, from position i: the buffer and the position
\* after the closing quote (or after the end of the input)
RECURSIVE SingleQuoted(_, _, _)
SingleQuoted(s, i, current) ==
    IF i > Len(s) THEN [cur |-> current, pos |-> i]
    ELSE IF SqCloses(s[i]) THEN [cur |-> current, pos |-> i + 1]
    ELSE SingleQuoted(s, i + 1, Append(current, s[i]))

\* the double-quote arm's loop, from position i
RECURSIVE DoubleQuoted(_, _, _)
DoubleQuoted(s, i, current) ==
    IF i > Len(s) THEN [cur |-> current, pos |-> i]
    ELSE IF s[i] = DQ THEN [cur |-> current, pos |-> i + 1]
    ELSE IF s[i] = BS
         THEN IF i + 1 <= Len(s)
              THEN DoubleQuoted(s, i + 2, current \o DqEscape(s[i + 1]))
              ELSE DoubleQuoted(s, i + 1, current)
    ELSE DoubleQuoted(s, i + 1, Append(current, s[i]))

\* the outer `while let Some(c) = chars.next()` loop, from position i, and the
\* flush at the end of the input
RECURSIVE TokLoop(_, _, _, _)
TokLoop(s, i, current, toks) ==
    IF i > Len(s) THEN Flush(toks, current)
    ELSE IF s[i] = SQ
         THEN LET r == SingleQuoted(s, i + 1, current)
              IN  TokLoop(s, r.pos, r.cur, toks)
    ELSE IF s[i] = DQ
         THEN LET r == DoubleQuoted(s, i + 1, current)
              IN  TokLoop(s, r.pos, r.cur, toks)
    ELSE IF s[i] = BS
         THEN IF i + 1 <= Len(s)
              THEN TokLoop(s, i + 2, Append(current, s[i + 1]), toks)
              ELSE TokLoop(s, i + 1, current, toks)
    ELSE IF IsSeparator(s[i])
         THEN TokLoop(s, i + 1, <<>>, Flush(toks, current))
    ELSE TokLoop(s, i + 1, Append(current, s[i]), toks)

tokenize(s) == TokLoop(s, 1, <<>>, <<>>)

---------------------------------------------------------------------------
(* Strings of the program and of its environment. *)

CD == <<"c", "d">>
ECHO == <<"e", "c", "h", "o">>
EXIT == <<"e", "x", "i", "t">>
TYPE == <<"t", "y", "p", "e">>
GT == <<">">>
ONEGT == <<"1", ">">>
ZERO == <<"0">>
ROOT == <<"/">>

\* the keys of Shell::commands
BuiltinNames == {CD, ECHO, EXIT, TYPE}

\* the environment: the value of PATH, the directories that exist, and the
\* regular files that may exist in the search-path directories
PATH == <<"/", "b", ":", "/", "u">>
Dirs == {ROOT, <<"/", "d">>, <<"/", "b">>, <<"/", "u">>}
PathFiles == {<<"/", "b", "/", "e", "c", "h", "o">>, <<"/", "u", "/", "l", "s">>}
\* the search-path directories are empty, or hold a file named like a builtin
\* and an external command
FsChoices == {{}, PathFiles}

\* the words a typed command line is made of
Words == {CD, ECHO, EXIT, TYPE, <<"l", "s">>, GT, ONEGT, <<"d">>, ZERO}

\* what a child process writes: opaque to the interpreter
ChildStdout == <<"<child stdout>">>
OsError == <<"<os error>">>

\* one print: the format string and the values of its {} places
Ev(fmt, args) == [fmt |-> fmt, args |-> args]

---------------------------------------------------------------------------
(* String helpers of the standard library, as the program uses them. *)

\* [T]::join(sep)
RECURSIVE Join(_, _)
Join(ws, sep) ==
    IF ws = <<>> THEN <<>>
    ELSE IF Len(ws) = 1 THEN ws[1]
    ELSE ws[1] \o sep \o Join(Tail(ws), sep)

\* str::trim_start and str::trim_end
RECURSIVE TrimStart(_)
TrimStart(s) ==
    IF s # <<>> /\ IsWhitespace(s[1]) THEN TrimStart(Tail(s)) ELSE s

RECURSIVE TrimEnd(_)
TrimEnd(s) ==
    IF s # <<>> /\ IsWhitespace(s[Len(s)])
    THEN TrimEnd(SubSeq(s, 1, Len(s) - 1)) ELSE s

\* str::trim
Trim(s) == TrimEnd(TrimStart(s))

\* str::split(ch): the pieces between the occurrences of ch, empty ones kept
RECURSIVE SplitOn(_, _, _)
SplitOn(s, ch, piece) ==
    IF s = <<>> THEN <<piece>>
    ELSE IF s[1] = ch THEN <<piece>> \o SplitOn(Tail(s), ch, <<>>)
    ELSE SplitOn(Tail(s), ch, Append(piece, s[1]))

\* the word at the head of s, s starting with a non-whitespace character
RECURSIVE WordAt(_)
WordAt(s) ==
    IF s = <<>> \/ IsWhitespace(s[1]) THEN <<>>
    ELSE <<s[1]>> \o WordAt(Tail(s))

\* arg.split_whitespace().peekable().peek(): <<>> is None, <<w>> is Some(w)
FirstWord(arg) ==
    LET t == TrimStart(arg) IN IF t = <<>> THEN <<>> ELSE <<WordAt(t)>>

\* whether `pat` occurs in s at position i
OccursAt(s, pat, i) ==
    /\ i + Len(pat) - 1 <= Len(s)
    /\ SubSeq(s, i, i + Len(pat) - 1) = pat

\* str::replace(from, to), from position i
RECURSIVE ReplaceFrom(_, _, _, _)
ReplaceFrom(s, from, to, i) ==
    IF i > Len(s) THEN <<>>
    ELSE IF OccursAt(s, from, i)
         THEN to \o ReplaceFrom(s, from, to, i + Len(from))
    ELSE <<s[i]>> \o ReplaceFrom(s, from, to, i + 1)

---------------------------------------------------------------------------
(* The file system, as the program's calls see it. *)

\* a path as the operating system resolves it against the working directory
Resolve(dir, p) ==
    IF p # <<>> /\ p[1] = "/" THEN p
    ELSE IF dir = ROOT THEN dir \o p
    ELSE dir \o <<"/">> \o p

\* whether File::create(file) succeeds: not when the path is empty or names a
\* directory
CanCreate(dir, file) == file # <<>> /\ Resolve(dir, file) \notin Dirs

\* whether env::set_current_dir(p) succeeds
IsDir(dir, p) == p # <<>> /\ Resolve(dir, p) \in Dirs

\* Shell::find_in_path: the first directory of PATH holding a regular file of
\* that name; <<>> is None, <<path>> is Some(path)
find_in_path(command, files) ==
    LET dirs == SplitOn(PATH, ":", <<>>)
        cand(i) == dirs[i] \o <<"/">> \o command
        hits == {i \in 1..Len(dirs) : cand(i) \in files}
    IN  IF hits = {} THEN <<>>
        ELSE <<cand(CHOOSE i \in hits : \A j \in hits : i <= j)>>

---------------------------------------------------------------------------
(* The builtins registered by Shell::new.  Each is a function of the joined  *)
(* argument string; its effects are returned as a record: what it prints to  *)
(* standard output and to standard error, the working directory and the      *)
(* state of the process it leaves, and the names it looks up.                *)

Effect(out, err, dir, al, lk) ==
    [out |-> out, err |-> err, cwd |-> dir, alive |-> al, lookups |-> lk]

\* the closure registered as "cd"
cd_builtin(arg, dir) ==
    LET w == FirstWord(arg)
        new_dir == IF w = <<>> THEN ROOT ELSE w[1]
    IN  IF IsDir(dir, new_dir)
        THEN Effect(<<>>, <<>>, Resolve(dir, new_dir), "running", {})
        ELSE Effect(<<>>, <<Ev("{}\n", <<OsError>>)>>, dir, "running", {})

\* the closure registered as "echo"
echo_builtin(arg, dir) ==
    Effect(<<Ev("{}\n", <<arg>>)>>, <<>>, dir, "running", {})

\* the closure registered as "exit"
exit_builtin(arg, dir) ==
    IF arg = ZERO
    THEN Effect(<<>>, <<>>, dir, "exited", {})
    ELSE Effect(<<Ev("{}: invalid argument\n", <<arg>>)>>, <<>>, dir, "running", {})

\* the closure registered as "type"
type_builtin(arg, dir, files) ==
    IF arg = <<>>
    THEN Effect(<<Ev("type: not enough arguments\n", <<>>)>>, <<>>, dir, "running", {})
    ELSE IF arg \in {CD, ECHO, EXIT, TYPE}
    THEN Effect(<<Ev("{} is a shellob builtin\n", <<arg>>)>>, <<>>, dir, "running", {})
    ELSE LET path == find_in_path(arg, files)
         IN  IF path # <<>>
             THEN Effect(<<Ev("{} is {}\n", <<arg, path[1]>>)>>, <<>>, dir,
                         "running", {arg})
             ELSE Effect(<<Ev("{}: not found\n", <<arg>>)>>, <<>>, dir,
                         "running", {arg})

\* func(arg), for the function registered under `name`
CallBuiltin(name, arg, dir, files) ==
    CASE name = CD -> cd_builtin(arg, dir)
      [] name = ECHO -> echo_builtin(arg, dir)
      [] name = EXIT -> exit_builtin(arg, dir)
      [] name = TYPE -> type_builtin(arg, dir, files)

---------------------------------------------------------------------------
(* Shell::handle_command *)

IsRedirectOp(t) == t = GT \/ t = ONEGT

\* the scan for the redirection operator: cmd_end is the number of tokens
\* before the honoured operator (Rust's zero-based index of it), or the
\* number of tokens
RedirectScan(toks) ==
    LET ops == {k \in 1..Len(toks) : IsRedirectOp(toks[k])}
        first == CHOOSE k \in ops : \A j \in ops : k <= j
    IN  IF ops # {} /\ first < Len(toks)
        THEN [cmd_end |-> first - 1, output_file |-> <<toks[first + 1]>>]
        ELSE [cmd_end |-> Len(toks), output_file |-> <<>>]

\* the mutant of Resolution: the search path is consulted before the registry
ResolutionPathFirst(command, files) ==
    IF find_in_path(command, files) # <<>> THEN "external"
    ELSE IF command \in BuiltinNames THEN "builtin"
    ELSE "notfound"

\* the order of `if let Some(..) = self.commands.get(command)`,
\* `else if let Some(path) = Shell::find_in_path(command)`, `else`
Resolution(command, files) ==
    IF command \in BuiltinNames THEN "builtin"
    ELSE IF find_in_path(command, files) # <<>> THEN "external"
    ELSE "notfound"

\* what the child may write to its standard error
ChildStderrs(path) == {<<>>, path \o <<":", " ", "x">>}

\* the state handle_command leaves
Done(toks, args, of, res, inv, la, lk, out, err, wr, dir, al) ==
    /\ pc' = "done"
    /\ tokens' = toks
    /\ arguments' = args
    /\ output_file' = of
    /\ resolved' = res
    /\ invoked' = inv
    /\ launched' = la
    /\ lookups' = lk
    /\ terminal' = out
    /\ errors' = err
    /\ written' = wr
    /\ cwd' = dir
    /\ alive' = al
    /\ UNCHANGED <<fsFiles, input>>

\* the branch of a registered builtin
BuiltinBranch(toks, command, args, of) ==
    LET output == Join(args, <<SP>>)
    IN  IF of # <<>>
        THEN IF CanCreate(cwd, of[1])
             THEN \E failed \in BOOLEAN :  \* whether writeln! returns Err
                    Done(toks, args, of, "builtin", FALSE, FALSE, {}, <<>>,
                         IF failed
                         THEN <<Ev("Error writing to file: {}\n", <<OsError>>)>>
                         ELSE <<>>,
                         <<[file |-> of[1], by |-> "shell",
                            text |-> IF failed THEN <<>>
                                     ELSE <<Ev("{}\n", <<output>>)>>]>>,
                         cwd, "running")
             ELSE Done(toks, args, of, "builtin", FALSE, FALSE, {}, <<>>, <<>>,
                       <<>>, cwd, "running")
        ELSE LET e == CallBuiltin(command, output, cwd, fsFiles)
             IN  Done(toks, args, of, "builtin", TRUE, FALSE, e.lookups, e.out,
                      e.err, <<>>, e.cwd, e.alive)

\* the branch of a command found on the search path
ExternalBranch(toks, command, args, of) ==
    LET path == find_in_path(command, fsFiles)[1]
    IN  IF of # <<>> /\ ~CanCreate(cwd, of[1])
        THEN Done(toks, args, of, "external", FALSE, FALSE, {command}, <<>>,
                  <<Ev("Error: Could not create output file\n", <<>>)>>, <<>>,
                  cwd, "running")
        ELSE \E ok \in BOOLEAN : \E stderr \in ChildStderrs(path) :
               LET wr == IF of # <<>>
                         THEN <<[file |-> of[1], by |-> "child", text |-> <<>>]>>
                         ELSE <<>>
               IN  IF ok
                   THEN Done(toks, args, of, "external", FALSE, TRUE, {command},
                             IF of = <<>> THEN <<Ev("{}", <<ChildStdout>>)>>
                             ELSE <<>>,
                             <<Ev("{}", <<ReplaceFrom(stderr, path \o <<":", " ">>,
                                                      command \o <<":", " ">>, 1)>>)>>,
                             wr, cwd, "running")
                   ELSE Done(toks, args, of, "external", FALSE, FALSE, {command},
                             <<>>,
                             <<Ev("Error executing command: {}\n", <<OsError>>)>>,
                             wr, cwd, "running")

\* the branch of a name that is neither
NotFoundBranch(toks, command, args, of) ==
    Done(toks, args, of, "notfound", FALSE, FALSE, {command},
         <<Ev("{}: command not found\n", <<command>>)>>, <<>>, <<>>, cwd, "running")

HandleCommand ==
    /\ pc = "handle"
    /\ alive = "running"
    /\ LET toks == tokenize(input)
       IN  IF toks = <<>>
           THEN Done(toks, <<>>, <<>>, "none", FALSE, FALSE, {}, <<>>, <<>>,
                     <<>>, cwd, "running")
           ELSE LET scan == RedirectScan(toks)
                IN  IF scan.cmd_end < 1
                    THEN \* &tokens[1..0]: the slice's start is past its end
                         Done(toks, <<>>, scan.output_file, "panic", FALSE, FALSE,
                              {}, <<>>, <<>>, <<>>, cwd, "panicked")
                    ELSE LET command == toks[1]
                             args == SubSeq(toks, 2, scan.cmd_end)
                             of == scan.output_file
                             res == Resolution(command, fsFiles)
                         IN  CASE res = "builtin" ->
                                    BuiltinBranch(toks, command, args, of)
                               [] res = "external" ->
                                    ExternalBranch(toks, command, args, of)
                               [] OTHER ->
                                    NotFoundBranch(toks, command, args, of)

---------------------------------------------------------------------------
(* main: the read loop *)

\* a typed line: words separated by single spaces, ended by the newline that
\* read_line keeps
Lines ==
    {Join(ws, <<SP>>) \o <<NL>> :
        ws \in UNION {[1..n -> Words] : n \in 0..MaxWords}}

\* `print!("$ "); io::stdout().flush()`: the next turn of the loop; what the
\* last dispatch left to be observed is cleared
Prompt ==
    /\ pc = "done"
    /\ alive = "running"
    /\ pc' = "prompt"
    /\ input' = <<>>
    /\ tokens' = <<>>
    /\ arguments' = <<>>
    /\ output_file' = <<>>
    /\ resolved' = "none"
    /\ invoked' = FALSE
    /\ launched' = FALSE
    /\ lookups' = {}
    /\ terminal' = <<>>
    /\ errors' = <<>>
    /\ written' = <<>>
    /\ UNCHANGED <<alive, fsFiles, cwd>>

\* `stdin.read_line(&mut input)` and the `input.trim()` handed on
ReadLine ==
    /\ pc = "prompt"
    /\ alive = "running"
    /\ \E line \in Lines : input' = Trim(line)
    /\ pc' = "handle"
    /\ UNCHANGED <<alive, fsFiles, cwd, tokens, arguments, output_file, resolved,
                   invoked, launched, lookups, terminal, errors, written>>

Init ==
    /\ pc = "prompt"
    /\ alive = "running"
    /\ fsFiles \in FsChoices
    /\ cwd = ROOT
    /\ input = <<>>
    /\ tokens = <<>>
    /\ arguments = <<>>
    /\ output_file = <<>>
    /\ resolved = "none"
    /\ invoked = FALSE
    /\ launched = FALSE
    /\ lookups = {}
    /\ terminal = <<>>
    /\ errors = <<>>
    /\ written = <<>>

Next == Prompt \/ ReadLine \/ HandleCommand

Spec == Init /\ [][Next]_vars

---------------------------------------------------------------------------
(* The tokenizer on its own: every string over Alphabet of at most MaxLen   *)
(* characters is tokenized.                                                 *)

Strings == UNION {[1..n -> Alphabet] : n \in 0..MaxLen}

TokInit ==
    /\ pc = "tokenize"
    /\ alive = "running"
    /\ fsFiles = {}
    /\ cwd = ROOT
    /\ input \in Strings
    /\ tokens = <<>>
    /\ arguments = <<>>
    /\ output_file = <<>>
    /\ resolved = "none"
    /\ invoked = FALSE
    /\ launched = FALSE
    /\ lookups = {}
    /\ terminal = <<>>
    /\ errors = <<>>
    /\ written = <<>>

\* `let tokens = Shell::tokenize(input)`
Tokenize ==
    /\ pc = "tokenize"
    /\ tokens' = tokenize(input)
    /\ pc' = "tokenized"
    /\ UNCHANGED <<alive, fsFiles, cwd, input, arguments, output_file, resolved,
                   invoked, launched, lookups, terminal, errors, written>>

TokNext == Tokenize

TokSpec == TokInit /\ [][TokNext]_vars

---------------------------------------------------------------------------
(* The claims.  A state with pc = "done" is the state handle_command leaves  *)
(* for the line `input`; a state with pc = "tokenized" holds tokenize's      *)
(* result for `input`.                                                       *)

\* arguments.join(" ")
JoinedArgs == Join(arguments, <<SP>>)

\* the values named by the prints of a stream
Named(events) == UNION {{e.args[i] : i \in 1..Len(e.args)} : e \in
                          {events[k] : k \in 1..Len(events)}}

\* C1: handle_command returns to the read loop without terminating or
\* crashing the process for every line, unless the command is the
\* unredirected exit builtin with the joined argument "0"; exit with another
\* argument reports it as invalid and does not terminate.
C1_NeverFatalButExitZero ==
    pc = "done" =>
        LET isExit == tokens # <<>> /\ tokens[1] = EXIT /\ output_file = <<>>
            isExitZero == isExit /\ JoinedArgs = ZERO
        IN  /\ alive = "running" \/ (alive = "exited" /\ isExitZero)
            /\ (isExit /\ ~isExitZero) =>
                   /\ alive = "running"
                   /\ terminal = <<Ev("{}: invalid argument\n", <<JoinedArgs>>)>>

\* C2: for every builtin and argument span, when a redirection target is
\* recorded and the file is created and written, the file holds exactly what
\* the builtin would have printed to the terminal with these arguments, and
\* nothing is printed to the terminal.
C2_RedirectedBuiltinOutput ==
    (/\ pc = "done"
     /\ resolved = "builtin"
     /\ output_file # <<>>
     /\ written # <<>>
     /\ errors = <<>>) =>
        /\ written[1].file = output_file[1]
        /\ written[1].text = CallBuiltin(tokens[1], JoinedArgs, cwd, fsFiles).out
        /\ terminal = <<>>

\* C3: when a redirection target is recorded and the file cannot be created,
\* for a builtin and for an external command, an error report names the
\* target file, nothing is printed to the terminal and the interpreter goes on.
C3_CreateFailureReported ==
    (/\ pc = "done"
     /\ resolved \in {"builtin", "external"}
     /\ output_file # <<>>
     /\ ~CanCreate(cwd, output_file[1])) =>
        /\ output_file[1] \in Named(errors)
        /\ terminal = <<>>
        /\ written = <<>>
        /\ alive = "running"

\* C4: for every non-empty token sequence only the first `>` or `1>` is
\* honoured: with a token after it, that token is the redirection target and
\* the command is passed exactly the tokens between the command name and the
\* operator; with no operator, or the first one last, there is no redirection
\* and the command is passed every token after its name.
C4_RedirectionSplit ==
    (pc = "done" /\ tokens # <<>>) =>
        LET ops == {k \in 1..Len(tokens) : tokens[k] \in {GT, ONEGT}}
            first == CHOOSE k \in ops : \A j \in ops : k <= j
        IN  /\ resolved \in {"builtin", "external", "notfound"}
            /\ IF ops # {} /\ first < Len(tokens)
               THEN /\ output_file = <<tokens[first + 1]>>
                    /\ arguments = SubSeq(tokens, 2, first - 1)
               ELSE /\ output_file = <<>>
                    /\ arguments = Tail(tokens)

\* C5 as stated: a command name in the registry takes the builtin path and
\* its dispatch performs no search-path lookup and launches no process; the
\* external branch is reached only for a name not in the registry, the
\* not-found branch only for a name in neither.
C5_BuiltinNeverLooksUp ==
    (pc = "done" /\ tokens # <<>>) =>
        /\ tokens[1] \in BuiltinNames =>
               resolved = "builtin" /\ lookups = {} /\ ~launched
        /\ resolved = "external" =>
               tokens[1] \notin BuiltinNames /\ find_in_path(tokens[1], fsFiles) # <<>>
        /\ resolved = "notfound" =>
               tokens[1] \notin BuiltinNames /\ find_in_path(tokens[1], fsFiles) = <<>>

\* C5 as amended: a command name in the registry takes the builtin path,
\* whatever files the search path holds; its dispatch launches no process and
\* never looks a builtin name up on the search path: the one lookup it may
\* make is the unredirected type builtin's, of its joined argument.  The
\* external branch is reached only for a name not in the registry, the
\* not-found branch only for a name in neither.
C5_BuiltinWins ==
    (pc = "done" /\ tokens # <<>>) =>
        /\ tokens[1] \in BuiltinNames =>
               /\ resolved = "builtin"
               /\ ~launched
               /\ lookups \cap BuiltinNames = {}
               /\ lookups # {} =>
                      /\ tokens[1] = TYPE
                      /\ output_file = <<>>
                      /\ lookups = {JoinedArgs}
        /\ resolved = "external" =>
               tokens[1] \notin BuiltinNames /\ find_in_path(tokens[1], fsFiles) # <<>>
        /\ resolved = "notfound" =>
               tokens[1] \notin BuiltinNames /\ find_in_path(tokens[1], fsFiles) = <<>>

\* echo was dispatched as the builtin although /b/echo is on the search path
C5_Witness ==
    /\ pc = "done"
    /\ tokens = <<ECHO, ZERO>>
    /\ find_in_path(ECHO, fsFiles) # <<>>
    /\ resolved = "builtin"
    /\ terminal = <<Ev("{}\n", <<ZERO>>)>>
    /\ lookups = {}

\* C10: the working directory changes only in the dispatch of cd; every cd
\* line whose target is a directory changes it to that target, or to / when
\* no argument is given.
C10_CwdOnlyByCd ==
    [][(pc = "handle" /\ pc' = "done") =>
          LET isCd == tokens' # <<>> /\ tokens'[1] = CD
              target == IF arguments' = <<>> THEN ROOT ELSE arguments'[1]
          IN  /\ cwd' # cwd => isCd
              /\ (isCd /\ IsDir(cwd, target)) => cwd' = Resolve(cwd, target)]_vars

---------------------------------------------------------------------------
(* The claims about tokenize. *)

\* one single-quoted region and nothing else
IsSingleQuoted(s) ==
    /\ Len(s) >= 2
    /\ s[1] = SQ
    /\ s[Len(s)] = SQ
    /\ \A i \in 2..(Len(s) - 1) : s[i] # SQ

QuotedContent(s) == SubSeq(s, 2, Len(s) - 1)

\* C6 as stated: an input that is one single-quoted region, empty content
\* included, gives exactly one token, the content verbatim.
C6_SingleQuotedOneToken ==
    (pc = "tokenized" /\ IsSingleQuoted(input)) =>
        tokens = <<QuotedContent(input)>>

\* C6 as amended: an input that is one single-quoted region with non-empty
\* content gives exactly one token, the content verbatim; with empty content
\* it gives no token.
C6_SingleQuotedVerbatim ==
    (pc = "tokenized" /\ IsSingleQuoted(input)) =>
        IF QuotedContent(input) = <<>>
        THEN tokens = <<>>
        ELSE tokens = <<QuotedContent(input)>>

\* a space, a backslash and a double quote between single quotes
C6_Witness ==
    /\ pc = "tokenized"
    /\ input = <<SQ, SP, BS, DQ, SQ>>
    /\ tokens = <<<<SP, BS, DQ>>>>

\* What a double-quoted region contributes by the rule of C7, read from
\* position i: ok says that the region, closed or not, reaches the end of the
\* input; `trailing` is what a backslash that ends the input contributes.
RECURSIVE DqRule(_, _, _, _)
DqRule(s, i, acc, trailing) ==
    IF i > Len(s) THEN [ok |-> TRUE, text |-> acc]
    ELSE IF s[i] = DQ THEN [ok |-> i = Len(s), text |-> acc]
    ELSE IF s[i] = BS
         THEN IF i = Len(s) THEN [ok |-> TRUE, text |-> acc \o trailing]
              ELSE IF s[i + 1] \in {BS, DOLLAR, DQ, NL}
                   THEN DqRule(s, i + 2, Append(acc, s[i + 1]), trailing)
              ELSE DqRule(s, i + 2, acc \o <<BS, s[i + 1]>>, trailing)
    ELSE DqRule(s, i + 1, Append(acc, s[i]), trailing)

\* the tokens of an input that is one double-quoted region contributing `text`
OneToken(text) == IF text = <<>> THEN <<>> ELSE <<text>>

\* C7 as stated: in a double-quoted region a backslash before \, $, " or a
\* newline contributes the following character alone; every other backslash
\* is kept, the one that is the last character of the input too.
C7_TrailingBackslashKept ==
    (pc = "tokenized" /\ input # <<>> /\ input[1] = DQ) =>
        LET r == DqRule(input, 2, <<>>, <<BS>>)
        IN  r.ok => tokens = OneToken(r.text)

\* C7 as amended: in a double-quoted region a backslash before \, $, " or a
\* newline contributes the following character alone; a backslash before any
\* other character is kept with it; a backslash that is the last character of
\* the input contributes nothing.
C7_DoubleQuoteEscapes ==
    (pc = "tokenized" /\ input # <<>> /\ input[1] = DQ) =>
        LET r == DqRule(input, 2, <<>>, <<>>)
        IN  r.ok => tokens = OneToken(r.text)

\* a kept pair and a collapsed pair, in a region that is not closed
C7_Witness ==
    /\ pc = "tokenized"
    /\ input = <<DQ, BS, "a", BS, DOLLAR>>
    /\ tokens = <<<<BS, "a", DOLLAR>>>>

\* every token is a string over the alphabet of the input
WellFormed(toks) ==
    \A k \in 1..Len(toks) : \A j \in 1..Len(toks[k]) : toks[k][j] \in Alphabet

\* C8 as stated: tokenize ends with a token sequence for every input, and
\* with the empty one when the input is empty or only whitespace.
C8_EmptyOnWhitespace ==
    /\ pc = "tokenize" => ENABLED Tokenize
    /\ pc = "tokenized" =>
           /\ WellFormed(tokens)
           /\ (\A i \in 1..Len(input) : IsWhitespace(input[i])) => tokens = <<>>

\* C8 as amended: tokenize ends with a token sequence for every input, and
\* with the empty one when the input is empty or only space characters.
C8_EmptyOnSpaces ==
    /\ pc = "tokenize" => ENABLED Tokenize
    /\ pc = "tokenized" =>
           /\ WellFormed(tokens)
           /\ (\A i \in 1..Len(input) : input[i] = SP) => tokens = <<>>

\* three spaces give no token
C8_Witness ==
    /\ pc = "tokenized"
    /\ input = <<SP, SP, SP>>
    /\ tokens = <<>>

\* the runs of s between its spaces, in order
Runs(s) == SelectSeq(SplitOn(s, SP, <<>>), LAMBDA r : r # <<>>)

\* C9: an input of unquoted runs of ordinary characters separated by spaces
\* gives one token per run, in order and equal to the run; and no token of any
\* input is empty.
C9_RunsAndNoEmptyToken ==
    pc = "tokenized" =>
        /\ (\A i \in 1..Len(input) : input[i] \notin {SQ, DQ, BS}) =>
               tokens = Runs(input)
        /\ \A k \in 1..Len(tokens) : tokens[k] # <<>>

\* a leading space and two spaces in a row, between two runs
C9_Witness ==
    /\ pc = "tokenized"
    /\ input = <<SP, "a", SP, SP, DOLLAR>>
    /\ tokens = <<<<"a">>, <<DOLLAR>>>>

===========================================================================
